---- MODULE Spec2Model ----
(***************************************************************************)
(* Model of src/agent.py: a test-case generator that reads user stories    *)
(* from INPUT_FILE, builds a prompt, posts it to a chat-completion         *)
(* endpoint and writes the answer to OUTPUT_FILE.                          *)
(*                                                                         *)
(* Text is a sequence of characters.  A multi-letter string inside a text  *)
(* stands for a run of non-whitespace characters.  An optional value is a  *)
(* sequence of length 0 (absent) or 1 (present).                           *)
(***************************************************************************)
EXTENDS Integers, Sequences, FiniteSets, TLC

VARIABLES
    pc,                 \* position of main: the last stage completed
    trace,              \* the stages completed so far, in order
    input_file,         \* content of INPUT_FILE on disk (optional text)
    output_file,        \* content of OUTPUT_FILE on disk (optional text)
    output_before,      \* content of OUTPUT_FILE when the run started
    env,                \* the process environment
    requirements_text,  \* main's local (optional)
    prompt,             \* main's local (optional)
    config,             \* main's local (optional)
    generated,          \* main's local (optional)
    response,           \* what the network answered to urlopen (optional)
    requests,           \* the HTTP requests sent so far
    exc,                \* the exception caught by main (optional)
    printed,            \* lines printed so far
    exit_status         \* main's return value (optional)

vars == <<pc, trace, input_file, output_file, output_before, env,
          requirements_text, prompt, config, generated, response, requests,
          exc, printed, exit_status>>

----------------------------------------------------------------------------
(* Bounds *)

MaxLen == 2
MaxEnvLen == 1

Timeout == 60

----------------------------------------------------------------------------
(* Optional values and texts *)

None == <<>>
Some(x) == <<x>>

Whitespace == {" ", "\n"}

TextOver(alphabet, n) == UNION {[1..k -> alphabet] : k \in 0..n}

RECURSIVE LStripChars(_, _)
LStripChars(s, chars) ==
    IF s # <<>> /\ s[1] \in chars THEN LStripChars(Tail(s), chars) ELSE s

RECURSIVE RStripChars(_, _)
RStripChars(s, chars) ==
    IF s # <<>> /\ s[Len(s)] \in chars
    THEN RStripChars(SubSeq(s, 1, Len(s) - 1), chars)
    ELSE s

\* str.strip()
Strip(s) == RStripChars(LStripChars(s, Whitespace), Whitespace)

\* str.rstrip('/')
RStripSlash(s) == RStripChars(s, {"/"})

----------------------------------------------------------------------------
(* Results of a call: a value or a raised exception *)

Exc(type, text, args) == [type |-> type, text |-> text, args |-> args]

Ok(v) == [ok |-> TRUE, val |-> v, exc |-> None]
Raise(e) == [ok |-> FALSE, val |-> None, exc |-> Some(e)]

INPUT_FILE == "requirement_stories.txt"
OUTPUT_FILE == "generated_testcases.md"

----------------------------------------------------------------------------
(* read_requirements *)

\* variant: the content is returned without .strip()
read_requirements_NoStrip(file) ==
    IF file = None
    THEN Raise(Exc("FileNotFoundError", "Could not find", <<INPUT_FILE>>))
    ELSE IF file[1] = <<>>
         THEN Raise(Exc("ValueError", "is empty", <<INPUT_FILE>>))
         ELSE Ok(file[1])

\* variant: the `if not content` check is left out
read_requirements_NoEmptyCheck(file) ==
    IF file = None
    THEN Raise(Exc("FileNotFoundError", "Could not find", <<INPUT_FILE>>))
    ELSE Ok(Strip(file[1]))

read_requirements(file) ==
    IF file = None
    THEN Raise(Exc("FileNotFoundError", "Could not find", <<INPUT_FILE>>))
    ELSE LET content == Strip(file[1])
         IN  IF content = <<>>
             THEN Raise(Exc("ValueError", "is empty", <<INPUT_FILE>>))
             ELSE Ok(content)

----------------------------------------------------------------------------
(* build_prompt *)

Instructions == "You are a senior QA engineer. [...] User Stories:"

build_prompt(user_stories) ==
    Strip(<<"\n", Instructions, "\n">> \o user_stories \o <<"\n">>)

----------------------------------------------------------------------------
(* get_config_from_env *)

Unset == None

DefaultModel == <<"gpt-4o-mini">>
DefaultBaseUrl == <<"https:", "/", "/", "api.openai.com", "/", "v1">>
DefaultTemperature == "0.2"

\* os.getenv(name, default)
getenv(e, name, default) == IF e[name] = Unset THEN default ELSE e[name][1]

LLMConfig(api_key, model, base_url) ==
    [api_key |-> api_key, model |-> model, base_url |-> base_url,
     temperature |-> DefaultTemperature]

\* variant: the `if not api_key` check is left out
get_config_from_env_NoCheck(e) ==
    LET api_key == Strip(getenv(e, "LLM_API_KEY", <<>>))
        model == Strip(getenv(e, "LLM_MODEL", DefaultModel))
        base_url == Strip(getenv(e, "LLM_BASE_URL", DefaultBaseUrl))
    IN  Ok(LLMConfig(api_key, model, base_url))

\* variant: LLM_API_KEY is not stripped
get_config_from_env_NoKeyStrip(e) ==
    LET api_key == getenv(e, "LLM_API_KEY", <<>>)
        model == Strip(getenv(e, "LLM_MODEL", DefaultModel))
        base_url == Strip(getenv(e, "LLM_BASE_URL", DefaultBaseUrl))
    IN  IF api_key = <<>>
        THEN Raise(Exc("EnvironmentError", "LLM_API_KEY is not set", <<>>))
        ELSE Ok(LLMConfig(api_key, model, base_url))

get_config_from_env(e) ==
    LET api_key == Strip(getenv(e, "LLM_API_KEY", <<>>))
        model == Strip(getenv(e, "LLM_MODEL", DefaultModel))
        base_url == Strip(getenv(e, "LLM_BASE_URL", DefaultBaseUrl))
    IN  IF api_key = <<>>
        THEN Raise(Exc("EnvironmentError", "LLM_API_KEY is not set", <<>>))
        ELSE Ok(LLMConfig(api_key, model, base_url))

----------------------------------------------------------------------------
(* JSON documents, as json.loads returns them *)

JVal(k, s, items, fields) == [k |-> k, s |-> s, items |-> items, fields |-> fields]

JNull == JVal("null", <<>>, <<>>, <<>>)
JNum == JVal("num", <<>>, <<>>, <<>>)
JStr(s) == JVal("str", s, <<>>, <<>>)
JList(items) == JVal("list", <<>>, items, <<>>)
\* fields: a sequence of [key, val] with distinct keys
JObj(fields) == JVal("dict", <<>>, <<>>, fields)

HasKey(fields, name) == \E i \in 1..Len(fields) : fields[i].key = name
Lookup(fields, name) ==
    fields[CHOOSE i \in 1..Len(fields) : fields[i].key = name].val

PyOk(v) == [ok |-> TRUE, val |-> v, err |-> ""]
PyRaise(type) == [ok |-> FALSE, val |-> JNull, err |-> type]

\* v[name], name a str
GetItemStr(v, name) ==
    IF v.k = "dict"
    THEN IF HasKey(v.fields, name) THEN PyOk(Lookup(v.fields, name))
         ELSE PyRaise("KeyError")
    ELSE PyRaise("TypeError")

\* v[i], i a non-negative int
GetItemInt(v, i) ==
    CASE v.k = "dict" -> PyRaise("KeyError")
      [] v.k = "list" -> IF i < Len(v.items) THEN PyOk(v.items[i + 1])
                         ELSE PyRaise("IndexError")
      [] v.k = "str" -> IF i < Len(v.s) THEN PyOk(JStr(<<v.s[i + 1]>>))
                        ELSE PyRaise("IndexError")
      [] OTHER -> PyRaise("TypeError")

\* v.strip()
CallStrip(v) ==
    IF v.k = "str" THEN PyOk(JStr(Strip(v.s))) ELSE PyRaise("AttributeError")

----------------------------------------------------------------------------
(* call_llm *)

SystemText == <<"You generate clear, complete software test cases.">>

Request(p, cfg) ==
    [method |-> "POST",
     url |-> RStripSlash(cfg.base_url) \o <<"/", "chat", "/", "completions">>,
     authorization |-> <<"Bearer", " ">> \o cfg.api_key,
     content_type |-> "application/json",
     payload |-> [model |-> cfg.model,
                  messages |-> <<[role |-> "system", content |-> SystemText],
                                 [role |-> "user", content |-> p]>>,
                  temperature |-> cfg.temperature],
     timeout |-> Timeout]

\* urllib raises HTTPError for a status outside 200..299
Is2xx(status) == 200 <= status /\ status < 300

\* json.loads(body)
json_loads(body) ==
    IF body.valid THEN Ok(body.doc)
    ELSE Raise(Exc("JSONDecodeError", "Expecting value", <<>>))

\* the first try block: urlopen, read, decode, json.loads
FetchParsed(net) ==
    CASE net.kind = "URLError" ->
            Raise(Exc("RuntimeError", "Could not reach LLM endpoint",
                      <<net.reason>>))
      [] net.kind = "TimeoutError" ->
            Raise(Exc("TimeoutError", net.reason, <<>>))
      [] net.kind = "HTTP" ->
            IF Is2xx(net.status)
            THEN json_loads(net.body)
            ELSE Raise(Exc("RuntimeError", "LLM API HTTP error",
                           <<net.status, net.body>>))

\* the except clause of the second try block
ParseCaught == {"KeyError", "IndexError", "AttributeError"}

\* parsed["choices"][0]["message"]["content"].strip()
Content(parsed) ==
    LET choices == GetItemStr(parsed, "choices")
        first == IF choices.ok THEN GetItemInt(choices.val, 0) ELSE choices
        message == IF first.ok THEN GetItemStr(first.val, "message") ELSE first
        content == IF message.ok THEN GetItemStr(message.val, "content") ELSE message
    IN  IF content.ok THEN CallStrip(content.val) ELSE content

\* the second try block
Extract(parsed) ==
    LET r == Content(parsed)
    IN  IF r.ok THEN Ok(r.val.s)
        ELSE IF r.err \in ParseCaught
             THEN Raise(Exc("RuntimeError", "Unexpected LLM response format",
                            <<parsed>>))
             ELSE Raise(Exc(r.err, "", <<>>))

\* variant: a failed attempt is followed by a second request
call_llm_Retry(p, cfg, net) ==
    LET parsed == FetchParsed(net)
        result == IF parsed.ok THEN Extract(parsed.val) ELSE parsed
    IN  [result |-> result,
         requests |-> IF result.ok THEN <<Request(p, cfg)>>
                      ELSE <<Request(p, cfg), Request(p, cfg)>>]

call_llm(p, cfg, net) ==
    LET parsed == FetchParsed(net)
    IN  [result |-> IF parsed.ok THEN Extract(parsed.val) ELSE parsed,
         requests |-> <<Request(p, cfg)>>]

----------------------------------------------------------------------------
(* write_output *)

\* Path.write_text: the file system accepts the write, refuses to open the
\* file, or fails the write after the file was opened (and truncated)
FsOutcomes == {"ok", "denied", "nospace"}

\* variant: the file is opened for appending
write_output_Append(content, old, fs) ==
    CASE fs = "ok" ->
            [file |-> Some((IF old = None THEN <<>> ELSE old[1]) \o content),
             result |-> Ok(None)]
      [] fs = "denied" ->
            [file |-> old,
             result |-> Raise(Exc("PermissionError", "Permission denied",
                                  <<OUTPUT_FILE>>))]
      [] fs = "nospace" ->
            [file |-> Some(<<>>),
             result |-> Raise(Exc("OSError", "No space left on device",
                                  <<OUTPUT_FILE>>))]

write_output(content, old, fs) ==
    CASE fs = "ok" -> [file |-> Some(content), result |-> Ok(None)]
      [] fs = "denied" ->
            [file |-> old,
             result |-> Raise(Exc("PermissionError", "Permission denied",
                                  <<OUTPUT_FILE>>))]
      [] fs = "nospace" ->
            [file |-> Some(<<>>),
             result |-> Raise(Exc("OSError", "No space left on device",
                                  <<OUTPUT_FILE>>))]

----------------------------------------------------------------------------
(* The inputs of a run: files, environment, network *)

FileContents == TextOver({" ", "a"}, MaxLen)
InputFiles == {None} \cup {Some(t) : t \in FileContents}
OutputFiles == {None, Some(<<"old">>)}

OptText(alphabet) == {Unset} \cup {Some(t) : t \in TextOver(alphabet, MaxEnvLen)}
Environments ==
    [LLM_API_KEY : OptText({" ", "k"}),
     LLM_MODEL : OptText({" ", "m"}),
     LLM_BASE_URL : OptText({" ", "/", "u"})]

JsonBody(doc) == [valid |-> TRUE, raw |-> <<>>, doc |-> doc]
RawBody(text) == [valid |-> FALSE, raw |-> text, doc |-> JNull]

Field(key, val) == [key |-> key, val |-> val]
Message(content) == JObj(<<Field("role", JStr(<<"assistant">>)), Field("content", content)>>)
Choice(message) == JObj(<<Field("index", JNum), Field("message", message)>>)
Completion(choices) == JObj(<<Field("id", JStr(<<"cmpl">>)), Field("choices", choices)>>)

Contents == TextOver({" ", "x"}, MaxLen)

WellFormedDocs ==
    {Completion(JList(<<Choice(Message(JStr(c)))>>)) : c \in Contents}
    \cup {Completion(JList(<<Choice(Message(JStr(c))),
                             Choice(Message(JStr(<<"second">>)))>>)) :
            c \in {<<"x">>, <<" ", "x">>}}

MalformedDocs ==
    {JNull, JNum, JStr(<<"x">>), JList(<<>>), JObj(<<>>),
     JList(<<Choice(Message(JStr(<<"x">>)))>>)}
    \cup {Completion(ch) : ch \in {JNull, JNum, JStr(<<>>), JStr(<<"x">>),
                                   JList(<<>>), JObj(<<>>)}}
    \cup {Completion(JList(<<el>>)) : el \in {JNull, JStr(<<"x">>), JList(<<>>),
                                              JObj(<<>>)}}
    \cup {Completion(JList(<<Choice(m)>>)) : m \in {JNull, JStr(<<"x">>),
                                                    JList(<<>>), JObj(<<>>)}}
    \cup {Completion(JList(<<Choice(Message(c))>>)) : c \in {JNull, JNum,
                                                             JList(<<>>), JObj(<<>>)}}

Bodies ==
    {JsonBody(d) : d \in WellFormedDocs \cup MalformedDocs}
    \cup {RawBody(<<>>), RawBody(<<"<html>">>)}

ErrorBodies == {RawBody(<<"denied">>), JsonBody(Completion(JList(<<Choice(Message(JStr(<<"x">>)))>>)))}

Net(kind, reason, status, body) ==
    [kind |-> kind, reason |-> reason, status |-> status, body |-> body]

\* what urlopen and response.read can meet
Responses ==
    {Net("URLError", r, 0, RawBody(<<>>)) :
        r \in {"Connection refused", "Name or service not known", "timed out"}}
    \cup {Net("TimeoutError", "timed out", 0, RawBody(<<>>))}
    \cup {Net("HTTP", "", 200, b) : b \in Bodies}
    \cup {Net("HTTP", "", 299, b) : b \in ErrorBodies}
    \cup {Net("HTTP", "", st, b) : st \in {199, 300, 401, 500}, b \in ErrorBodies}

----------------------------------------------------------------------------
(* main *)

Stages == <<"RequirementsLoaded", "PromptBuilt", "ConfigLoaded",
            "ResponseReceived", "OutputWritten", "Success">>

Line(text, args) == [text |-> text, args |-> args]

\* subclasses of Exception
ExceptionClasses ==
    {"FileNotFoundError", "ValueError", "EnvironmentError", "RuntimeError",
     "TimeoutError", "JSONDecodeError", "KeyError", "IndexError",
     "AttributeError", "TypeError", "PermissionError", "OSError"}

\* variant: except RuntimeError
Catches_OnlyRuntimeError(type) == type = "RuntimeError"

\* except Exception
Catches(type) == type \in ExceptionClasses

\* an exception leaves the try block
Except(e, out) ==
    /\ exc' = Some(e)
    /\ IF Catches(e.type)
       THEN /\ pc' = "Failed"
            /\ printed' = Append(out, Line("Error:", <<e>>))
            /\ exit_status' = Some(1)
       ELSE /\ pc' = "Uncaught"
            /\ printed' = out
            /\ exit_status' = None

Advance(stage) ==
    /\ pc' = stage
    /\ trace' = Append(trace, stage)

Init ==
    /\ pc = "Start"
    /\ trace = <<>>
    /\ input_file \in InputFiles
    /\ output_file \in OutputFiles
    /\ output_before = output_file
    /\ env \in Environments
    /\ requirements_text = None
    /\ prompt = None
    /\ config = None
    /\ generated = None
    /\ response = None
    /\ requests = <<>>
    /\ exc = None
    /\ printed = <<>>
    /\ exit_status = None

ReadRequirements ==
    /\ pc = "Start"
    /\ LET r == read_requirements(input_file)
       IN  IF r.ok
           THEN /\ requirements_text' = Some(r.val)
                /\ Advance("RequirementsLoaded")
                /\ UNCHANGED <<exc, printed, exit_status>>
           ELSE /\ Except(r.exc[1], printed)
                /\ UNCHANGED <<requirements_text, trace>>
    /\ UNCHANGED <<input_file, output_file, output_before, env, prompt, config,
                   generated, response, requests>>

BuildPrompt ==
    /\ pc = "RequirementsLoaded"
    /\ prompt' = Some(build_prompt(requirements_text[1]))
    /\ Advance("PromptBuilt")
    /\ UNCHANGED <<input_file, output_file, output_before, env,
                   requirements_text, config, generated, response, requests,
                   exc, printed, exit_status>>

GetConfig ==
    /\ pc = "PromptBuilt"
    /\ LET r == get_config_from_env(env)
       IN  IF r.ok
           THEN /\ config' = Some(r.val)
                /\ Advance("ConfigLoaded")
                /\ UNCHANGED <<exc, printed, exit_status>>
           ELSE /\ Except(r.exc[1], printed)
                /\ UNCHANGED <<config, trace>>
    /\ UNCHANGED <<input_file, output_file, output_before, env,
                   requirements_text, prompt, generated, response, requests>>

CallLLM ==
    /\ pc = "ConfigLoaded"
    /\ \E net \in Responses :
         LET out == Append(printed, Line("Calling LLM to generate test cases...", <<>>))
             r == call_llm(prompt[1], config[1], net)
         IN  /\ response' = Some(net)
             /\ requests' = requests \o r.requests
             /\ IF r.result.ok
                THEN /\ generated' = Some(r.result.val)
                     /\ Advance("ResponseReceived")
                     /\ printed' = out
                     /\ UNCHANGED <<exc, exit_status>>
                ELSE /\ Except(r.result.exc[1], out)
                     /\ UNCHANGED <<generated, trace>>
    /\ UNCHANGED <<input_file, output_file, output_before, env,
                   requirements_text, prompt, config>>

\* variant: the output file is opened (and truncated) before the LLM call
WriteOutput_Early ==
    /\ pc = "ConfigLoaded"
    /\ output_file # Some(<<>>)
    /\ output_file' = Some(<<>>)
    /\ UNCHANGED <<pc, trace, input_file, output_before, env,
                   requirements_text, prompt, config, generated, response,
                   requests, exc, printed, exit_status>>

WriteOutput ==
    /\ pc = "ResponseReceived"
    /\ \E fs \in FsOutcomes :
         LET w == write_output(generated[1], output_file, fs)
         IN  /\ output_file' = w.file
             /\ IF w.result.ok
                THEN /\ Advance("OutputWritten")
                     /\ UNCHANGED <<exc, printed, exit_status>>
                ELSE /\ Except(w.result.exc[1], printed)
                     /\ UNCHANGED trace
    /\ UNCHANGED <<input_file, output_before, env, requirements_text, prompt,
                   config, generated, response, requests>>

Return ==
    /\ pc = "OutputWritten"
    /\ printed' = Append(printed, Line("Done. Test cases written to:", <<OUTPUT_FILE>>))
    /\ exit_status' = Some(0)
    /\ Advance("Success")
    /\ UNCHANGED <<input_file, output_file, output_before, env,
                   requirements_text, prompt, config, generated, response,
                   requests, exc>>

Next ==
    \/ ReadRequirements
    \/ BuildPrompt
    \/ GetConfig
    \/ CallLLM
    \/ WriteOutput
    \/ Return

Spec == Init /\ [][Next]_vars

----------------------------------------------------------------------------
(* Vocabulary of the properties *)

IsBlank(t) == \A k \in 1..Len(t) : t[k] \in Whitespace

\* r is t without its leading and trailing whitespace
IsTrimOf(r, t) ==
    \E i \in 1..(Len(t) + 1), j \in 0..Len(t) :
        /\ r = SubSeq(t, i, j)
        /\ \A k \in 1..(i - 1) : t[k] \in Whitespace
        /\ \A k \in (j + 1)..Len(t) : t[k] \in Whitespace
        /\ r # <<>> => (r[1] \notin Whitespace /\ r[Len(r)] \notin Whitespace)

IsPrefix(s, t) == Len(s) <= Len(t) /\ s = SubSeq(t, 1, Len(s))

Reached(stage) == \E i \in 1..Len(trace) : trace[i] = stage

\* main failed in the stage that follows n completed stages
FailedAfter(n) == pc = "Failed" /\ Len(trace) = n

Raised(type) == exc # None /\ exc[1].type = type

KeyMissing == env.LLM_API_KEY = Unset \/ IsBlank(env.LLM_API_KEY[1])

ErrorLines == {i \in 1..Len(printed) : printed[i].text = "Error:"}

\* the body is JSON holding a string at choices[0].message.content
WellFormed(body) ==
    /\ body.valid
    /\ body.doc.k = "dict"
    /\ HasKey(body.doc.fields, "choices")
    /\ LET choices == Lookup(body.doc.fields, "choices")
       IN  /\ choices.k = "list"
           /\ Len(choices.items) >= 1
           /\ choices.items[1].k = "dict"
           /\ HasKey(choices.items[1].fields, "message")
           /\ LET message == Lookup(choices.items[1].fields, "message")
              IN  /\ message.k = "dict"
                  /\ HasKey(message.fields, "content")
                  /\ Lookup(message.fields, "content").k = "str"

FirstChoiceContent(body) ==
    Lookup(Lookup(Lookup(body.doc.fields, "choices").items[1].fields,
                  "message").fields, "content").s

Answered2xx ==
    /\ response # None
    /\ response[1].kind = "HTTP"
    /\ 200 <= response[1].status
    /\ response[1].status <= 299

----------------------------------------------------------------------------
(* C1 *)

----------------------------------------------------------------------------
(* C2 *)

\* C2: main returns 0 exactly when all stages completed without error; a
\* failure of any stage is caught in main, printed once with the prefix
\* "Error:", and yields exit status 1; no failure is left uncaught.
C2_ExitStatus ==
    /\ pc # "Uncaught"
    /\ exit_status \in {None, Some(0), Some(1)}
    /\ exit_status # None <=> pc \in {"Success", "Failed"}
    /\ exit_status = Some(0) <=>
          (trace = Stages /\ exc = None /\ generated # None)
    /\ exit_status = Some(0) => ErrorLines = {}
    /\ exc # None <=> pc = "Failed"
    /\ pc = "Failed" =>
          /\ exit_status = Some(1)
          /\ ErrorLines = {Len(printed)}
          /\ printed[Len(printed)].args = exc
          /\ ~Reached("Success")

C2_Witness ==
    /\ pc = "Failed"
    /\ Raised("TypeError")
    /\ exit_status = Some(1)

----------------------------------------------------------------------------
(* C3 *)

\* C3: when requirement loading, configuration loading or the LLM call
\* fails, the output file is the one the run found: neither created nor
\* modified.
C3_NoOutputOnEarlyFailure ==
    (pc = "Failed" /\ Len(trace) <= 3) => output_file = output_before

C3_Witness ==
    /\ FailedAfter(3)
    /\ output_before # None
    /\ output_file = output_before
    /\ Answered2xx

----------------------------------------------------------------------------
(* C4 *)

\* C4: for a 2xx response whose body is not JSON or lacks a string at
\* choices[0].message.content, call_llm fails with the "Unexpected LLM
\* response format" error and no other.
C4_MalformedResponseError ==
    (Answered2xx /\ ~WellFormed(response[1].body)) =>
        /\ pc = "Failed"
        /\ Raised("RuntimeError")
        /\ exc[1].text = "Unexpected LLM response format"

----------------------------------------------------------------------------
(* C5 *)

\* C5: every transport failure, while connecting or while reading the
\* response, is reported as "Could not reach LLM endpoint" with its reason,
\* and every non-2xx response as "LLM API HTTP error" with the status code
\* and the body.
C5_DistinctErrors ==
    /\ (response # None /\ response[1].kind \in {"URLError", "TimeoutError"}) =>
          /\ pc = "Failed"
          /\ Raised("RuntimeError")
          /\ exc[1].text = "Could not reach LLM endpoint"
          /\ exc[1].args = <<response[1].reason>>
    /\ (response # None /\ response[1].kind = "HTTP" /\ ~Answered2xx) =>
          /\ pc = "Failed"
          /\ Raised("RuntimeError")
          /\ exc[1].text = "LLM API HTTP error"
          /\ exc[1].args = <<response[1].status, response[1].body>>

----------------------------------------------------------------------------
(* C6 *)

ReadDone == pc # "Start"

C6_Result ==
    ReadDone =>
        /\ input_file = None =>
              (FailedAfter(0) /\ Raised("FileNotFoundError")
               /\ requirements_text = None)
        /\ (input_file # None /\ IsBlank(input_file[1])) =>
              (FailedAfter(0) /\ Raised("ValueError")
               /\ requirements_text = None)
        /\ (input_file # None /\ ~IsBlank(input_file[1])) =>
              /\ Reached("RequirementsLoaded")
              /\ requirements_text # None
              /\ requirements_text[1] # <<>>
              /\ IsTrimOf(requirements_text[1], input_file[1])

\* C6: read_requirements fails with FileNotFoundError on a missing file and
\* with ValueError on an empty or whitespace-only file; otherwise it returns
\* the content without leading and trailing whitespace, never empty; and it
\* writes to no file.
C6_ReadRequirements ==
    /\ []C6_Result
    /\ [][pc = "Start" => (input_file' = input_file /\ output_file' = output_file)]_vars

C6_Witness ==
    /\ pc = "RequirementsLoaded"
    /\ requirements_text # None
    /\ Len(requirements_text[1]) < Len(input_file[1])

----------------------------------------------------------------------------
(* C7 *)

ConfigDone == Reached("ConfigLoaded") \/ FailedAfter(2)

ConfigFailed ==
    /\ FailedAfter(2)
    /\ Raised("EnvironmentError")
    /\ config = None

\* C7 as stated (refuted): model and base_url of the configuration are the
\* environment values, or the defaults when the variable is not provided.
C7_AsStated ==
    ConfigDone =>
        IF KeyMissing THEN ConfigFailed
        ELSE /\ config # None
             /\ IsTrimOf(config[1].api_key, env.LLM_API_KEY[1])
             /\ config[1].api_key # <<>>
             /\ config[1].model =
                   IF env.LLM_MODEL = Unset THEN <<"gpt-4o-mini">>
                   ELSE env.LLM_MODEL[1]
             /\ config[1].base_url =
                   IF env.LLM_BASE_URL = Unset
                   THEN <<"https:", "/", "/", "api.openai.com", "/", "v1">>
                   ELSE env.LLM_BASE_URL[1]

\* C7 amended: get_config_from_env fails with EnvironmentError whenever
\* LLM_API_KEY is unset, empty or whitespace, whatever LLM_MODEL and
\* LLM_BASE_URL hold; otherwise api_key is the trimmed non-empty key, and model
\* and base_url are the environment values with leading and trailing
\* whitespace removed, or the defaults when the variable is not provided.
C7_Config ==
    ConfigDone =>
        IF KeyMissing THEN ConfigFailed
        ELSE /\ config # None
             /\ IsTrimOf(config[1].api_key, env.LLM_API_KEY[1])
             /\ config[1].api_key # <<>>
             /\ IF env.LLM_MODEL = Unset
                THEN config[1].model = <<"gpt-4o-mini">>
                ELSE IsTrimOf(config[1].model, env.LLM_MODEL[1])
             /\ IF env.LLM_BASE_URL = Unset
                THEN config[1].base_url =
                        <<"https:", "/", "/", "api.openai.com", "/", "v1">>
                ELSE IsTrimOf(config[1].base_url, env.LLM_BASE_URL[1])

C7_Witness ==
    /\ config # None
    /\ env.LLM_MODEL # Unset
    /\ config[1].model # env.LLM_MODEL[1]
    /\ env.LLM_BASE_URL = Unset

----------------------------------------------------------------------------
(* C8 *)

\* C8: a run issues at most one HTTP request, a POST to
\* {base_url}/chat/completions; after a failed attempt no second request is
\* sent and the run ends Failed with exit status 1.
C8_SingleRequest ==
    /\ Len(requests) <= 1
    /\ \A i \in 1..Len(requests) :
          /\ requests[i].method = "POST"
          /\ config # None
          /\ Len(requests[i].url) >= 4
          /\ LET url == requests[i].url
                 base == SubSeq(url, 1, Len(url) - 4)
             IN  /\ url = base \o <<"/", "chat", "/", "completions">>
                 /\ IsPrefix(base, config[1].base_url)
                 /\ \A k \in (Len(base) + 1)..Len(config[1].base_url) :
                       config[1].base_url[k] = "/"
                 /\ base # <<>> => base[Len(base)] # "/"
    /\ response # None => Len(requests) = 1
    /\ (response # None /\ ~Reached("ResponseReceived")) =>
          (FailedAfter(3) /\ exit_status = Some(1))

C8_Witness ==
    /\ FailedAfter(3)
    /\ Len(requests) = 1
    /\ response # None
    /\ response[1].kind = "URLError"

----------------------------------------------------------------------------
(* C9 *)

\* C9: after a successful run the output file holds exactly the trimmed
\* choices[0].message.content of the response, whatever it held before, and
\* nothing of a later element of choices.
C9_OutputIsContent ==
    exit_status = Some(0) =>
        /\ Answered2xx
        /\ WellFormed(response[1].body)
        /\ output_file # None
        /\ IsTrimOf(output_file[1], FirstChoiceContent(response[1].body))

C9_Witness ==
    /\ exit_status = Some(0)
    /\ output_before # None
    /\ Len(Lookup(response[1].body.doc.fields, "choices").items) = 2
    /\ output_file[1] # FirstChoiceContent(response[1].body)

----------------------------------------------------------------------------
(* C10 *)

\* C10: a request is sent only in a run whose input file exists and is not
\* blank and whose LLM_API_KEY is set and not blank: requirement loading has
\* returned a non-empty text and configuration loading a non-empty key, which
\* is the key the Authorization header carries.
C10_RequestNeedsInputs ==
    (requests # <<>> \/ response # None) =>
        /\ input_file # None
        /\ ~IsBlank(input_file[1])
        /\ ~KeyMissing
        /\ requirements_text # None
        /\ requirements_text[1] # <<>>
        /\ config # None
        /\ config[1].api_key # <<>>
        /\ \A i \in 1..Len(requests) :
              requests[i].authorization = <<"Bearer", " ">> \o config[1].api_key

C10_Witness ==
    /\ Len(requests) = 1
    /\ Len(requirements_text[1]) < Len(input_file[1])
    /\ config[1].api_key = env.LLM_API_KEY[1]

====
